---- MODULE Spec2Model ----
(***************************************************************************)
(* Model of src/cluster.py: build_plan_live (PlanBuilder),                 *)
(* distribute_to_folders (DistributionExecutor) and process_group_folder   *)
(* (BatchCoordinator).                                                     *)
(*                                                                         *)
(* Strings are sequences of Unicode code points, a path is the sequence of *)
(* its components below (and including) the group directory, and str(path) *)
(* joins the components with "/" (47).  The filesystem is POSIX.           *)
(***************************************************************************)
EXTENDS Integers, Sequences, FiniteSets, TLC

(* ------------------------------------------------------------------ *)
(* Bounds                                                              *)
(* ------------------------------------------------------------------ *)
\* Greatest number of environment failures (an operation of the filesystem
\* or of an oracle raising) injected in one behaviour.
MaxFaults == 1
\* Greatest number of PlanItems of a plan handed directly to
\* distribute_to_folders.
MaxItems == 2
\* Greatest number of images below a directory handed directly to
\* build_plan_live.
MaxImages == 2

(* ------------------------------------------------------------------ *)
(* Strings                                                             *)
(* ------------------------------------------------------------------ *)
\* str.lower() on the letters the model uses: Latin A-Z and Cyrillic
\* U+0410..U+042F are 32 below their lowercase forms.
LowerChar(c) == IF (c >= 65 /\ c <= 90) \/ (c >= 1040 /\ c <= 1071) THEN c + 32 ELSE c

\* Mutant of Lower: the string is left as it is.
Lower_Same(s) == s

Lower(s) == [i \in 1..Len(s) |-> LowerChar(s[i])]

\* needle in hay
Contains(hay, needle) ==
    \E i \in 0..(Len(hay) - Len(needle)) :
        \A j \in 1..Len(needle) : hay[i + j] = needle[j]

\* s < t for Python strings: lexicographic by code point.
RECURSIVE StrLess(_, _)
StrLess(s, t) ==
    IF t = <<>> THEN FALSE
    ELSE IF s = <<>> THEN TRUE
    ELSE IF s[1] # t[1] THEN s[1] < t[1]
    ELSE StrLess(Tail(s), Tail(t))

\* f"{n}" for n >= 0
RECURSIVE Decimal(_)
Decimal(n) == IF n < 10 THEN <<48 + n>> ELSE Decimal(n \div 10) \o <<48 + (n % 10)>>

\* "общие"
Marker == <<1086, 1073, 1097, 1080, 1077>>

\* IMG_EXTS
IMG_EXTS ==
    { <<46, 106, 112, 103>>,            \* .jpg
      <<46, 106, 112, 101, 103>>,       \* .jpeg
      <<46, 112, 110, 103>>,            \* .png
      <<46, 98, 109, 112>>,             \* .bmp
      <<46, 116, 105, 102>>,            \* .tif
      <<46, 116, 105, 102, 102>>,       \* .tiff
      <<46, 119, 101, 98, 112>> }       \* .webp

(* ------------------------------------------------------------------ *)
(* Paths                                                               *)
(* ------------------------------------------------------------------ *)
\* Path.name
Name(p) == p[Len(p)]

\* Path.parent
Parent(p) == SubSeq(p, 1, Len(p) - 1)

\* Path.suffix: the name from its last dot on, unless that dot is the first
\* or the last character.
Suffix(p) ==
    LET n == Name(p)
        dots == {i \in 1..Len(n) : n[i] = 46}
    IN  IF dots = {} THEN <<>>
        ELSE LET i == CHOOSE k \in dots : \A m \in dots : m <= k
             IN  IF i > 1 /\ i < Len(n) THEN SubSeq(n, i, Len(n)) ELSE <<>>

\* str(path)
RECURSIVE PathStr(_)
PathStr(p) ==
    IF p = <<>> THEN <<>>
    ELSE IF Len(p) = 1 THEN p[1]
    ELSE PathStr(Parent(p)) \o <<47>> \o Name(p)

\* Path(string): split at "/"
RECURSIVE ParsePath(_)
ParsePath(s) ==
    LET seps == {i \in 1..Len(s) : s[i] = 47}
    IN  IF seps = {} THEN <<s>>
        ELSE LET i == CHOOSE k \in seps : \A m \in seps : m <= k
             IN  Append(ParsePath(SubSeq(s, 1, i - 1)), SubSeq(s, i + 1, Len(s)))

\* Path < Path: the lists of components compare lexicographically.
RECURSIVE PathLess(_, _)
PathLess(p, q) ==
    IF q = <<>> THEN FALSE
    ELSE IF p = <<>> THEN TRUE
    ELSE IF p[1] # q[1] THEN StrLess(p[1], q[1])
    ELSE PathLess(Tail(p), Tail(q))

is_image(p) == Lower(Suffix(p)) \in IMG_EXTS

IsPrefix(d, p) == Len(d) <= Len(p) /\ SubSeq(p, 1, Len(d)) = d

\* sorted(S) for a set of paths
RECURSIVE SortPaths(_)
SortPaths(S) ==
    IF S = {} THEN <<>>
    ELSE LET m == CHOOSE p \in S : \A q \in S : q = p \/ PathLess(p, q)
         IN  <<m>> \o SortPaths(S \ {m})

\* sorted(S) for a set of integers
RECURSIVE SortInts(_)
SortInts(S) ==
    IF S = {} THEN <<>>
    ELSE LET m == CHOOSE x \in S : \A y \in S : x <= y
         IN  <<m>> \o SortInts(S \ {m})

Range(s) == {s[i] : i \in 1..Len(s)}

\* the index of x in the sequence s (x occurs once)
IndexOf(s, x) == CHOOSE i \in 1..Len(s) : s[i] = x

\* The directory process_group_folder is called on.
GroupDir == << <<103>> >>                                       \* g

(* ------------------------------------------------------------------ *)
(* State                                                               *)
(* ------------------------------------------------------------------ *)
VARIABLES
    dirs,             \* the directories that exist (set of paths)
    files,            \* the regular files that exist: path -> content
    faults,           \* environment failures injected so far
    pc,               \* position of the running function
    top,              \* the function the behaviour entered first
    \* process_group_folder
    subfolders,       \* sorted(group_dir.iterdir())
    sub_i,            \* index of the loop over subfolders
    cluster_counter,
    calls,            \* start and returned cursor of each distribute call
    \* build_plan_live
    input_dir,
    all_images,
    img_i,            \* index of the loop over all_images
    owners,           \* owners[k] is the image of the k-th embedding
    img_face_count,
    unreadable,
    no_faces,
    raw_labels,
    oracle_log,       \* the calls made to the external oracles
    built,            \* <<>> or <<the dict build_plan_live returned>>
    \* distribute_to_folders
    plan,
    base_dir,
    cluster_start,
    moved,
    copied,
    moved_paths,
    item_i,           \* index of the loop over plan_items
    ops,              \* the filesystem operations of this call, in order
    ret,              \* <<>> or <<the tuple distribute_to_folders returned>>
    runs              \* calls of distribute_to_folders entered so far

fsVars == <<dirs, files, faults>>
groupVars == <<subfolders, sub_i, cluster_counter, calls>>
buildVars == <<input_dir, all_images, img_i, owners, img_face_count, unreadable,
               no_faces, raw_labels, oracle_log, built>>
distVars == <<plan, base_dir, cluster_start, moved, copied, moved_paths, item_i,
              ops, ret, runs>>
vars == <<dirs, files, faults, pc, top, subfolders, sub_i, cluster_counter, calls,
          input_dir, all_images, img_i, owners, img_face_count, unreadable,
          no_faces, raw_labels, oracle_log, built,
          plan, base_dir, cluster_start, moved, copied, moved_paths, item_i,
          ops, ret, runs>>

(* ------------------------------------------------------------------ *)
(* Filesystem                                                          *)
(* ------------------------------------------------------------------ *)
\* Path.exists()
Exists(p, ds, fs) == p \in ds \/ p \in DOMAIN fs

\* the directories mkdir(parents=True, exist_ok=True) leaves behind
WithDirs(d, ds) == ds \cup {SubSeq(d, 1, k) : k \in 1..Len(d)}

\* mkdir(parents=True, exist_ok=True) raises when a component of the path is
\* a regular file.
MkdirBlocked(d, fs) == \E k \in 1..Len(d) : SubSeq(d, 1, k) \in DOMAIN fs

\* any(p.iterdir())
HasEntries(d, ds, fs) ==
    \/ \E f \in DOMAIN fs : Parent(f) = d
    \/ \E c \in ds : Len(c) = Len(d) + 1 /\ Parent(c) = d

\* the file at src now (also) at dst; an existing dst is overwritten
Written(fs, src, dst) ==
    [p \in DOMAIN fs \cup {dst} |-> IF p = dst THEN fs[src] ELSE fs[p]]

\* the file at p gone
Removed(fs, p) == [q \in DOMAIN fs \ {p} |-> fs[q]]

\* shutil.move(src, dst) of a regular file onto a path that is not a
\* directory: os.rename, which replaces dst and is a no-op when src = dst.
Renamed(fs, src, dst) == IF src = dst THEN fs ELSE Removed(Written(fs, src, dst), src)

\* shutil.copy2(src, dst) raises SameFileError when both name the same file.
SameFile(src, dst) == src = dst

(* ------------------------------------------------------------------ *)
(* distribute_to_folders                                               *)
(* ------------------------------------------------------------------ *)
\* plan.get("plan", [])
plan_items == plan.plan

\* sorted({c for item in plan.get("plan", []) for c in item["cluster"]})
used_clusters == SortInts(UNION {Range(plan_items[k].cluster) : k \in 1..Len(plan_items)})

\* Mutant of cluster_id_map: a local id is shifted by the start, whatever
\* its place among the ids of the plan.
cluster_id_map_shift == [old \in Range(used_clusters) |-> cluster_start + (old - 1)]

\* {old: cluster_start + idx for idx, old in enumerate(used_clusters)}
cluster_id_map == [old \in Range(used_clusters) |-> cluster_start + (IndexOf(used_clusters, old) - 1)]

\* base_dir / f"{cluster_id}" / src.name
Target(src, cluster_id) == base_dir \o <<Decimal(cluster_id), Name(src)>>

\* One record of ops.
Op(kind, it, src, dst, ok) == [op |-> kind, item |-> it, src |-> src, dst |-> dst, ok |-> ok]

\* What the environment does to the operations on one target directory.
Outcomes == {"ok", "mkdir_fail", "op_fail"}

\* Entry of distribute_to_folders: the locals before the loop.
DistEnter ==
    /\ pc = "dist_call"
    /\ moved' = 0
    /\ copied' = 0
    /\ moved_paths' = {}
    /\ item_i' = 1
    /\ ops' = <<>>
    /\ ret' = <<>>
    /\ runs' = runs + 1
    /\ pc' = IF Len(plan_items) = 0 THEN "dist_cleanup" ELSE "dist_item"
    /\ UNCHANGED <<plan, base_dir, cluster_start, top>>
    /\ UNCHANGED <<fsVars, groupVars, buildVars>>

\* The part of the state one loop iteration works on.
ItemState ==
    [dirs |-> dirs, files |-> files, moved |-> moved, copied |-> copied,
     moved_paths |-> moved_paths, ops |-> ops, raised |-> FALSE, nf |-> 0]

\* dst.parent.mkdir(parents=True, exist_ok=True), outside every try block:
\* a failure leaves the function by the exception.
MkdirStep(st, it, dst, o) ==
    IF MkdirBlocked(Parent(dst), st.files) \/ o = "mkdir_fail"
    THEN [st EXCEPT !.raised = TRUE,
                    !.nf = @ + (IF MkdirBlocked(Parent(dst), st.files) THEN 0 ELSE 1),
                    !.ops = Append(@, Op("mkdir", it, Parent(dst), Parent(dst), FALSE))]
    ELSE [st EXCEPT !.dirs = WithDirs(Parent(dst), @),
                    !.ops = Append(@, Op("mkdir", it, Parent(dst), Parent(dst), TRUE))]

\* Mutant of MoveStep: the file is copied to dst and stays at src.
MoveStep_Copy(st, it, src, dst, o) ==
    IF o = "op_fail"
    THEN [st EXCEPT !.nf = @ + 1,
                    !.ops = Append(@, Op("move", it, src, dst, FALSE))]
    ELSE [st EXCEPT !.files = Written(@, src, dst),
                    !.moved = @ + 1,
                    !.moved_paths = @ \cup {Parent(src)},
                    !.ops = Append(@, Op("move", it, src, dst, TRUE))]

\* Mutant of MoveStep: moved is incremented before the move is tried.
MoveStep_CountFirst(st, it, src, dst, o) ==
    IF o = "op_fail"
    THEN [st EXCEPT !.nf = @ + 1,
                    !.moved = @ + 1,
                    !.ops = Append(@, Op("move", it, src, dst, FALSE))]
    ELSE [st EXCEPT !.files = Renamed(@, src, dst),
                    !.moved = @ + 1,
                    !.moved_paths = @ \cup {Parent(src)},
                    !.ops = Append(@, Op("move", it, src, dst, TRUE))]

\* try: shutil.move(src, dst); moved += 1; moved_paths.add(src.parent)
MoveStep(st, it, src, dst, o) ==
    IF o = "op_fail"
    THEN [st EXCEPT !.nf = @ + 1,
                    !.ops = Append(@, Op("move", it, src, dst, FALSE))]
    ELSE [st EXCEPT !.files = Renamed(@, src, dst),
                    !.moved = @ + 1,
                    !.moved_paths = @ \cup {Parent(src)},
                    !.ops = Append(@, Op("move", it, src, dst, TRUE))]

\* Mutant of CopyStep: a copy that is made is not counted.
CopyStep_Uncounted(st, it, src, dst, o) ==
    IF SameFile(src, dst) \/ o = "op_fail"
    THEN [st EXCEPT !.nf = @ + (IF SameFile(src, dst) THEN 0 ELSE 1),
                    !.ops = Append(@, Op("copy", it, src, dst, FALSE))]
    ELSE [st EXCEPT !.files = Written(@, src, dst),
                    !.ops = Append(@, Op("copy", it, src, dst, TRUE))]

\* try: shutil.copy2(src, dst); copied += 1
CopyStep(st, it, src, dst, o) ==
    IF SameFile(src, dst) \/ o = "op_fail"
    THEN [st EXCEPT !.nf = @ + (IF SameFile(src, dst) THEN 0 ELSE 1),
                    !.ops = Append(@, Op("copy", it, src, dst, FALSE))]
    ELSE [st EXCEPT !.files = Written(@, src, dst),
                    !.copied = @ + 1,
                    !.ops = Append(@, Op("copy", it, src, dst, TRUE))]

\* Mutant of UnlinkStep: a failure of the deletion leaves the function.
UnlinkStep_Raise(st, it, src, del) ==
    IF del = "fail"
    THEN [st EXCEPT !.nf = @ + 1,
                    !.raised = TRUE,
                    !.ops = Append(@, Op("unlink", it, src, src, FALSE))]
    ELSE [st EXCEPT !.files = Removed(@, src),
                    !.ops = Append(@, Op("unlink", it, src, src, TRUE))]

\* try: src.unlink()
UnlinkStep(st, it, src, del) ==
    IF del = "fail"
    THEN [st EXCEPT !.nf = @ + 1,
                    !.ops = Append(@, Op("unlink", it, src, src, FALSE))]
    ELSE [st EXCEPT !.files = Removed(@, src),
                    !.ops = Append(@, Op("unlink", it, src, src, TRUE))]

\* for cluster_id in clusters: mkdir, copy
RECURSIVE CopyLoop(_, _, _, _, _, _)
CopyLoop(st, it, src, clusters, out, j) ==
    IF j > Len(clusters) \/ st.raised THEN st
    ELSE LET dst == Target(src, clusters[j])
             m == MkdirStep(st, it, dst, out[j])
         IN  IF m.raised THEN m
             ELSE CopyLoop(CopyStep(m, it, src, dst, out[j]), it, src, clusters, out, j + 1)

\* The body of the loop for one item whose source exists.
ItemEffect(st, it, src, clusters, out, del) ==
    IF Len(clusters) = 1
    THEN LET dst == Target(src, clusters[1])
             m == MkdirStep(st, it, dst, out[1])
         IN  IF m.raised THEN m ELSE MoveStep(m, it, src, dst, out[1])
    ELSE LET c == CopyLoop(st, it, src, clusters, out, 1)
         IN  IF c.raised THEN c ELSE UnlinkStep(c, it, src, del)

\* Mutant of SkipItem: the target directories are made before the source is
\* looked at.
SkipItem_Mkdir(st, it, src, clusters) ==
    [st EXCEPT !.dirs = @ \cup UNION {WithDirs(Parent(Target(src, clusters[k])), {}) :
                                         k \in 1..Len(clusters)},
               !.ops = Append(@, Op("mkdir", it, src, src, TRUE))]

\* if not src.exists(): continue
SkipItem(st, it, src, clusters) == st

\* One iteration of the loop over plan_items.
DistItem ==
    /\ pc = "dist_item"
    /\ item_i <= Len(plan_items)
    /\ LET item == plan_items[item_i]
           src == ParsePath(item.path)
           clusters == [k \in 1..Len(item.cluster) |-> cluster_id_map[item.cluster[k]]]
       IN  IF ~Exists(src, dirs, files)
           THEN LET r == SkipItem(ItemState, item_i, src, clusters)
                IN  /\ pc' = IF item_i = Len(plan_items) THEN "dist_cleanup" ELSE "dist_item"
                    /\ item_i' = item_i + 1
                    /\ dirs' = r.dirs
                    /\ files' = r.files
                    /\ moved' = r.moved
                    /\ copied' = r.copied
                    /\ moved_paths' = r.moved_paths
                    /\ ops' = r.ops
                    /\ UNCHANGED faults
           ELSE \E out \in [1..Len(clusters) -> Outcomes], del \in {"ok", "fail"} :
                    LET r == ItemEffect(ItemState, item_i, src, clusters, out, del)
                    IN  \* every failure chosen is one the code ran into
                        /\ r.nf = Cardinality({k \in 1..Len(clusters) : out[k] # "ok"})
                                    + (IF del = "fail" THEN 1 ELSE 0)
                        /\ faults + r.nf <= MaxFaults
                        /\ faults' = faults + r.nf
                        /\ dirs' = r.dirs
                        /\ files' = r.files
                        /\ moved' = r.moved
                        /\ copied' = r.copied
                        /\ moved_paths' = r.moved_paths
                        /\ ops' = r.ops
                        /\ pc' = IF r.raised THEN "raised"
                                 ELSE IF item_i = Len(plan_items) THEN "dist_cleanup"
                                 ELSE "dist_item"
                        /\ item_i' = IF r.raised THEN item_i ELSE item_i + 1
    /\ UNCHANGED <<plan, base_dir, cluster_start, ret, runs, top>>
    /\ UNCHANGED <<groupVars, buildVars>>

\* len(str(x))
StrLen(p) == Len(PathStr(p))

\* Mutant of ByLengthDesc: the shortest path comes first.
RECURSIVE ByLengthAsc(_)
ByLengthAsc(S) ==
    IF S = {} THEN <<>>
    ELSE LET m == CHOOSE p \in S : \A q \in S : StrLen(p) <= StrLen(q)
         IN  <<m>> \o ByLengthAsc(S \ {m})

\* sorted(moved_paths, key=lambda x: len(str(x)), reverse=True); paths of
\* equal length are unrelated directories, whose order does not matter.
RECURSIVE ByLengthDesc(_)
ByLengthDesc(S) ==
    IF S = {} THEN <<>>
    ELSE LET m == CHOOSE p \in S : \A q \in S : StrLen(q) <= StrLen(p)
         IN  <<m>> \o ByLengthDesc(S \ {m})

\* The cleanup loop from its j-th directory on; fail is the set of
\* directories whose rmdir raises.
RECURSIVE CleanupLoop(_, _, _, _)
CleanupLoop(st, order, fail, j) ==
    IF j > Len(order) THEN st
    ELSE LET p == order[j]
         IN  IF Exists(p, st.dirs, st.files) /\ p \in st.dirs /\ ~HasEntries(p, st.dirs, st.files)
             THEN IF p \in fail
                  THEN CleanupLoop([st EXCEPT !.nf = @ + 1,
                                              !.ops = Append(@, Op("rmdir", 0, p, p, FALSE))],
                                   order, fail, j + 1)
                  ELSE CleanupLoop([st EXCEPT !.dirs = @ \ {p},
                                              !.ops = Append(@, Op("rmdir", 0, p, p, TRUE))],
                                   order, fail, j + 1)
             ELSE CleanupLoop(st, order, fail, j + 1)

\* The cleanup pass over moved_paths.
DistCleanup ==
    /\ pc = "dist_cleanup"
    /\ \E fail \in SUBSET moved_paths :
           LET r == CleanupLoop(ItemState, ByLengthDesc(moved_paths), fail, 1)
           IN  /\ r.nf = Cardinality(fail)
               /\ faults + r.nf <= MaxFaults
               /\ faults' = faults + r.nf
               /\ dirs' = r.dirs
               /\ ops' = r.ops
    /\ pc' = "dist_return"
    /\ UNCHANGED <<files, plan, base_dir, cluster_start, moved, copied, moved_paths,
                   item_i, ret, runs, top>>
    /\ UNCHANGED <<groupVars, buildVars>>

\* Mutant of NextCursor: the cursor advances by the number of items.
NextCursor_Items == cluster_start + Len(plan_items)

\* cluster_start + len(used_clusters)
NextCursor == cluster_start + Len(used_clusters)

\* return moved, copied, cluster_start + len(used_clusters)
DistReturn ==
    /\ pc = "dist_return"
    /\ ret' = <<[moved |-> moved, copied |-> copied, next |-> NextCursor]>>
    /\ pc' = "dist_done"
    /\ UNCHANGED <<plan, base_dir, cluster_start, moved, copied, moved_paths, item_i,
                   ops, runs, top>>
    /\ UNCHANGED <<fsVars, groupVars, buildVars>>

(* ------------------------------------------------------------------ *)
(* build_plan_live                                                     *)
(* ------------------------------------------------------------------ *)
\* min_score, in tenths
min_score == 5

\* One detection of the embedding oracle: its det_score in tenths and
\* whether it carries a normed_embedding.
Face(score, emb) == [det_score |-> score, normed_embedding |-> emb]

\* The label the cluster oracle gives to noise.
Noise == 0 - 1

\* The labels the cluster oracle may return: noise, and labels that are
\* neither contiguous nor start at 0 or 1.
RawLabels == {Noise, 0, 2}

\* imread_safe(p) is not None
Readable(p) == p \in DOMAIN files /\ files[p].readable

\* The paths input_dir.rglob("*") yields that pass the filter of all_images.
Scanned(d) ==
    {p \in dirs \cup DOMAIN files :
        /\ IsPrefix(d, p)
        /\ p # d
        /\ is_image(p)
        /\ ~Contains(Lower(PathStr(Parent(p))), Marker)}

\* The orders in which a set can be listed.
Orders(S) == {f \in [1..Cardinality(S) -> S] : \A a, b \in 1..Cardinality(S) : a # b => f[a] # f[b]}

\* The scan of input_dir; rglob yields the entries in the order of the
\* underlying directory listings, which is not sorted.
BuildEnter ==
    /\ pc = "build_call"
    /\ all_images' \in Orders(Scanned(input_dir))
    /\ img_i' = 0
    /\ owners' = <<>>
    /\ img_face_count' = <<>>
    /\ unreadable' = <<>>
    /\ no_faces' = <<>>
    /\ raw_labels' = <<>>
    /\ oracle_log' = <<>>
    /\ built' = <<>>
    /\ pc' = "build_init"
    /\ UNCHANGED <<input_dir, top, fsVars, groupVars, distVars>>

\* app = FaceAnalysis(...); app.prepare(...): an exception leaves
\* build_plan_live.
BuildInit ==
    /\ pc = "build_init"
    /\ \/ /\ oracle_log' = Append(oracle_log, "FaceAnalysis")
          /\ img_i' = 1
          /\ pc' = IF Len(all_images) = 0 THEN "build_scanned" ELSE "build_scan"
          /\ UNCHANGED faults
       \/ /\ faults < MaxFaults
          /\ faults' = faults + 1
          /\ oracle_log' = Append(oracle_log, "FaceAnalysis failed")
          /\ pc' = "raised"
          /\ UNCHANGED img_i
    /\ UNCHANGED <<input_dir, all_images, owners, img_face_count, unreadable, no_faces,
                   raw_labels, built, top, dirs, files, groupVars, distVars>>

\* The detections of an image that yield an embedding.
Accepted(faces) ==
    {k \in 1..Len(faces) : ~(faces[k].det_score < min_score) /\ faces[k].normed_embedding}

\* Mutant of NoDetections: an image none of whose detections is accepted
\* counts as an image without detections.
NoDetections_Accepted(faces) == Accepted(faces) = {}

\* not faces
NoDetections(faces) == Len(faces) = 0

\* One iteration of the loop over all_images.
BuildScan ==
    /\ pc = "build_scan"
    /\ img_i <= Len(all_images)
    /\ LET p == all_images[img_i]
       IN  IF ~Readable(p)
           THEN /\ unreadable' = Append(unreadable, p)
                /\ UNCHANGED <<no_faces, owners, img_face_count, oracle_log>>
           ELSE LET faces == files[p].faces
                    count == Cardinality(Accepted(faces))
                IN  /\ oracle_log' = Append(oracle_log, "get")
                    /\ IF NoDetections(faces)
                       THEN /\ no_faces' = Append(no_faces, p)
                            /\ UNCHANGED <<unreadable, owners, img_face_count>>
                       ELSE /\ owners' = owners \o [k \in 1..count |-> p]
                            /\ img_face_count' =
                                   IF count > 0
                                   THEN [q \in DOMAIN img_face_count \cup {p} |->
                                            IF q = p THEN count ELSE img_face_count[q]]
                                   ELSE img_face_count
                            /\ UNCHANGED <<unreadable, no_faces>>
    /\ img_i' = img_i + 1
    /\ pc' = IF img_i = Len(all_images) THEN "build_scanned" ELSE "build_scan"
    /\ UNCHANGED <<input_dir, all_images, raw_labels, built, top, fsVars, groupVars,
                   distVars>>

\* [str(p) for p in paths]
Strs(paths) == [k \in 1..Len(paths) |-> PathStr(paths[k])]

\* Mutant of BuildEmpty: the cluster oracle is run on the empty input
\* before the empty plan is returned.
BuildEmpty_Clustered ==
    /\ pc = "build_scanned"
    /\ Len(owners) = 0
    /\ oracle_log' = Append(oracle_log, "fit_predict")
    /\ built' = <<[clusters |-> <<>>, plan |-> <<>>,
                   unreadable |-> Strs(unreadable), no_faces |-> Strs(no_faces)]>>
    /\ pc' = "build_done"
    /\ UNCHANGED <<input_dir, all_images, img_i, owners, img_face_count, unreadable,
                   no_faces, raw_labels, top, fsVars, groupVars, distVars>>

\* if not embeddings: return the empty plan
BuildEmpty ==
    /\ pc = "build_scanned"
    /\ Len(owners) = 0
    /\ built' = <<[clusters |-> <<>>, plan |-> <<>>,
                   unreadable |-> Strs(unreadable), no_faces |-> Strs(no_faces)]>>
    /\ pc' = "build_done"
    /\ UNCHANGED <<input_dir, all_images, img_i, owners, img_face_count, unreadable,
                   no_faces, raw_labels, oracle_log, top, fsVars, groupVars, distVars>>

\* cosine_distances(X) and HDBSCAN(...).fit_predict(distance_matrix): one
\* label per embedding, or an exception that leaves build_plan_live.
BuildCluster ==
    /\ pc = "build_scanned"
    /\ Len(owners) > 0
    /\ \/ /\ raw_labels' \in [1..Len(owners) -> RawLabels]
          /\ oracle_log' = Append(oracle_log, "fit_predict")
          /\ pc' = "build_labelled"
          /\ UNCHANGED faults
       \/ /\ faults < MaxFaults
          /\ faults' = faults + 1
          /\ oracle_log' = Append(oracle_log, "fit_predict failed")
          /\ pc' = "raised"
          /\ UNCHANGED raw_labels
    /\ UNCHANGED <<input_dir, all_images, img_i, owners, img_face_count, unreadable,
                   no_faces, built, top, dirs, files, groupVars, distVars>>

\* Mutant of label_map: the ids start at 0.
label_map_zero(labels) ==
    LET srt == SortInts(Range(labels) \ {Noise})
    IN  [label \in Range(srt) |-> IndexOf(srt, label) - 1]

\* {label: idx + 1 for idx, label in enumerate(sorted(set(raw_labels) - {-1}))}
label_map(labels) ==
    LET srt == SortInts(Range(labels) \ {Noise})
    IN  [label \in Range(srt) |-> (IndexOf(srt, label) - 1) + 1]

\* cluster_map after the loop over zip(raw_labels, owners)
cluster_map(labels, own) ==
    LET lm == label_map(labels)
        ks == {k \in 1..Len(labels) : labels[k] # Noise}
    IN  [new_lbl \in {lm[labels[k]] : k \in ks} |->
            {own[k] : k \in {m \in ks : lm[labels[m]] = new_lbl}}]

\* Mutant of cluster_by_img: an image keeps only the least of its ids.
cluster_by_img_least(labels, own) ==
    LET lm == label_map(labels)
        ks == {k \in 1..Len(labels) : labels[k] # Noise}
    IN  [path \in {own[k] : k \in ks} |->
            LET ids == {lm[labels[k]] : k \in {m \in ks : own[m] = path}}
            IN  {CHOOSE x \in ids : \A y \in ids : x <= y}]

\* cluster_by_img after the loop over zip(raw_labels, owners)
cluster_by_img(labels, own) ==
    LET lm == label_map(labels)
        ks == {k \in 1..Len(labels) : labels[k] # Noise}
    IN  [path \in {own[k] : k \in ks} |->
            {lm[labels[k]] : k \in {m \in ks : own[m] = path}}]

\* sorted(v, key=lambda x: str(x)) for a set of paths, as strings
RECURSIVE SortedStrs(_)
SortedStrs(S) ==
    IF S = {} THEN <<>>
    ELSE LET m == CHOOSE p \in S : \A q \in S : q = p \/ StrLess(PathStr(p), PathStr(q))
         IN  <<PathStr(m)>> \o SortedStrs(S \ {m})

\* Mutant of PlanOf: an image without a cluster is not passed over.
RECURSIVE PlanOf_All(_, _, _)
PlanOf_All(images, by_img, counts) ==
    IF images = <<>> THEN <<>>
    ELSE LET path == Head(images)
         IN  <<[path |-> PathStr(path),
                cluster |-> IF path \in DOMAIN by_img THEN SortInts(by_img[path]) ELSE <<>>,
                faces |-> IF path \in DOMAIN counts THEN counts[path] ELSE 0]>>
             \o PlanOf_All(Tail(images), by_img, counts)

\* Mutant of PlanOf: the items come out in the reverse order.
RECURSIVE PlanOf_Reversed(_, _, _)
PlanOf_Reversed(images, by_img, counts) ==
    IF images = <<>> THEN <<>>
    ELSE LET path == Head(images)
             rest == PlanOf_Reversed(Tail(images), by_img, counts)
         IN  IF path \notin DOMAIN by_img \/ by_img[path] = {}
             THEN rest
             ELSE rest \o <<[path |-> PathStr(path),
                             cluster |-> SortInts(by_img[path]),
                             faces |-> IF path \in DOMAIN counts THEN counts[path] ELSE 0]>>

\* The items of the plan: the images of all_images, in its order, that have
\* a cluster.
RECURSIVE PlanOf(_, _, _)
PlanOf(images, by_img, counts) ==
    IF images = <<>> THEN <<>>
    ELSE LET path == Head(images)
             rest == PlanOf(Tail(images), by_img, counts)
         IN  IF path \notin DOMAIN by_img \/ by_img[path] = {}
             THEN rest
             ELSE <<[path |-> PathStr(path),
                     cluster |-> SortInts(by_img[path]),
                     faces |-> IF path \in DOMAIN counts THEN counts[path] ELSE 0]>> \o rest

\* From label_map to the return of the plan.
BuildPlan ==
    /\ pc = "build_labelled"
    /\ LET cm == cluster_map(raw_labels, owners)
       IN  built' = <<[clusters |-> [k \in DOMAIN cm |-> SortedStrs(cm[k])],
                       plan |-> PlanOf(all_images, cluster_by_img(raw_labels, owners),
                                       img_face_count),
                       unreadable |-> Strs(unreadable),
                       no_faces |-> Strs(no_faces)]>>
    /\ pc' = "build_done"
    /\ UNCHANGED <<input_dir, all_images, img_i, owners, img_face_count, unreadable,
                   no_faces, raw_labels, oracle_log, top, fsVars, groupVars, distVars>>

(* ------------------------------------------------------------------ *)
(* process_group_folder                                                *)
(* ------------------------------------------------------------------ *)
\* group_dir.iterdir()
Entries(d) == {p \in dirs \cup DOMAIN files : Len(p) = Len(d) + 1 /\ Parent(p) = d}

\* cluster_counter = 1 and the list the loop runs over
GroupEnter ==
    /\ pc = "group_call"
    /\ cluster_counter' = 1
    /\ subfolders' = SortPaths(Entries(GroupDir))
    /\ sub_i' = 1
    /\ calls' = <<>>
    /\ pc' = "group_loop"
    /\ UNCHANGED <<top, fsVars, buildVars, distVars>>

\* The head of the loop: the next entry is skipped or handed to
\* build_plan_live; after the last entry the function returns.
GroupNext ==
    /\ pc = "group_loop"
    /\ IF sub_i > Len(subfolders)
       THEN /\ pc' = "group_done"
            /\ UNCHANGED <<sub_i, input_dir>>
       ELSE LET subfolder == subfolders[sub_i]
            IN  IF subfolder \notin dirs \/ Contains(Lower(Name(subfolder)), Marker)
                THEN /\ sub_i' = sub_i + 1
                     /\ pc' = "group_loop"
                     /\ UNCHANGED input_dir
                ELSE /\ input_dir' = subfolder
                     /\ pc' = "build_call"
                     /\ UNCHANGED sub_i
    /\ UNCHANGED <<subfolders, cluster_counter, calls, top, fsVars, distVars,
                   all_images, img_i, owners, img_face_count, unreadable, no_faces,
                   raw_labels, oracle_log, built>>

\* distribute_to_folders(plan, subfolder, cluster_start=cluster_counter)
GroupDistribute ==
    /\ pc = "build_done"
    /\ top = "group"
    /\ plan' = built[1]
    /\ base_dir' = subfolders[sub_i]
    /\ cluster_start' = cluster_counter
    /\ calls' = Append(calls, [base_dir |-> subfolders[sub_i], start |-> cluster_counter,
                               clusters |-> UNION {Range(built[1].plan[k].cluster) :
                                                      k \in 1..Len(built[1].plan)},
                               returned |-> FALSE, next |-> cluster_counter])
    /\ pc' = "dist_call"
    /\ UNCHANGED <<subfolders, sub_i, cluster_counter, top, fsVars, buildVars,
                   moved, copied, moved_paths, item_i, ops, ret, runs>>

\* Mutant of Adopted: the tuple is unpacked in the wrong order.
Adopted_First(r) == r.moved

\* The element of the returned tuple that is unpacked into cluster_counter.
Adopted(r) == r.next

\* moved, copied, cluster_counter = <the returned tuple>
GroupAdopt ==
    /\ pc = "dist_done"
    /\ top = "group"
    /\ cluster_counter' = Adopted(ret[1])
    /\ calls' = [calls EXCEPT ![Len(calls)] = [@ EXCEPT !.returned = TRUE,
                                                      !.next = ret[1].next]]
    /\ sub_i' = sub_i + 1
    /\ pc' = "group_loop"
    /\ UNCHANGED <<subfolders, top, fsVars, buildVars, distVars>>

(* ------------------------------------------------------------------ *)
(* distribute_to_folders called directly                               *)
(* ------------------------------------------------------------------ *)
\* A caller replays the plan it holds: distribute_to_folders is entered a
\* second time with the same arguments.
DistAgain ==
    /\ pc = "dist_done"
    /\ top = "dist"
    /\ runs = 1
    /\ pc' = "dist_call"
    /\ UNCHANGED <<top, fsVars, groupVars, buildVars, distVars>>

\* The content of an image file: the path it had at first, whether it
\* decodes, and the detections the embedding oracle finds in it.
Image(p, readable, faces) == [orig |-> p, readable |-> readable, faces |-> faces]

ExecBase == GroupDir \o << <<97>> >>                            \* g/a
ExecSX == ExecBase \o << <<115>>, <<120, 46, 106, 112, 103>> >> \* g/a/s/x.jpg
ExecSTY == ExecBase \o << <<115>>, <<116>>, <<121, 46, 74, 80, 71>> >>   \* g/a/s/t/y.JPG
Exec1X == ExecBase \o << <<49>>, <<120, 46, 106, 112, 103>> >>  \* g/a/1/x.jpg
ExecNote == ExecBase \o << <<115>>, <<116>>, <<110, 46, 116, 120, 116>> >>  \* g/a/s/t/n.txt

\* The images of the tree distribute_to_folders is run on; g/a/1/x.jpg is
\* what an earlier run over g/a left in cluster directory 1.
ExecImages == {ExecSX, ExecSTY, Exec1X}

\* The cluster lists of the PlanItems: ascending, not empty.
ExecClusterLists == {<<1>>, <<2>>, <<1, 3>>}

ExecStarts == {1, 2}

\* The item lists of the plans: at most MaxItems items, no path twice.
ExecItemLists ==
    UNION { { [k \in 1..n |-> [path |-> PathStr(f[k][1]), cluster |-> f[k][2],
                               faces |-> Len(f[k][2])]] :
                f \in { g \in [1..n -> ExecImages \X ExecClusterLists] :
                          \A a, b \in 1..n : a # b => g[a][1] # g[b][1] } } :
            n \in 0..MaxItems }

\* The clusters entry that goes with a list of items.
ClustersOf(items) ==
    [c \in UNION {Range(items[k].cluster) : k \in 1..Len(items)} |->
        SortedStrs({ParsePath(items[k].path) :
                       k \in {m \in 1..Len(items) : c \in Range(items[m].cluster)}})]

InitBuildIdle ==
    /\ input_dir = <<>>
    /\ all_images = <<>>
    /\ img_i = 0
    /\ owners = <<>>
    /\ img_face_count = <<>>
    /\ unreadable = <<>>
    /\ no_faces = <<>>
    /\ raw_labels = <<>>
    /\ oracle_log = <<>>
    /\ built = <<>>

InitGroupIdle ==
    /\ subfolders = <<>>
    /\ sub_i = 0
    /\ cluster_counter = 0
    /\ calls = <<>>

InitExec ==
    /\ top = "dist"
    /\ pc = "dist_call"
    /\ faults = 0
    /\ \E note \in SUBSET {ExecNote} :
           /\ dirs = UNION {WithDirs(Parent(p), {}) : p \in ExecImages \cup {ExecNote}}
           /\ files = [p \in ExecImages \cup note |-> Image(p, TRUE, <<>>)]
    /\ \E items \in ExecItemLists :
           plan = [clusters |-> ClustersOf(items), plan |-> items,
                   unreadable |-> <<>>, no_faces |-> <<>>]
    /\ base_dir = ExecBase
    /\ cluster_start \in ExecStarts
    /\ moved = 0
    /\ copied = 0
    /\ moved_paths = {}
    /\ item_i = 0
    /\ ops = <<>>
    /\ ret = <<>>
    /\ runs = 0
    /\ InitBuildIdle
    /\ InitGroupIdle

NextExec == DistEnter \/ DistItem \/ DistCleanup \/ DistReturn \/ DistAgain

SpecExec == InitExec /\ [][NextExec]_vars

(* ------------------------------------------------------------------ *)
(* build_plan_live called directly                                     *)
(* ------------------------------------------------------------------ *)
LowFace == Face(3, TRUE)       \* below min_score
EdgeFace == Face(5, TRUE)      \* at min_score
BareFace == Face(9, FALSE)     \* no normed_embedding

\* What an image file may hold: whether it decodes, and its detections.
BuildContents ==
    { [readable |-> FALSE, faces |-> <<>>],
      [readable |-> TRUE,  faces |-> <<>>],
      [readable |-> TRUE,  faces |-> <<LowFace>>],
      [readable |-> TRUE,  faces |-> <<BareFace>>],
      [readable |-> TRUE,  faces |-> <<EdgeFace>>],
      [readable |-> TRUE,  faces |-> <<LowFace, EdgeFace>>],
      [readable |-> TRUE,  faces |-> <<EdgeFace, EdgeFace>>] }

BuildZ == ExecBase \o << <<122, 46, 112, 110, 103>> >>                   \* g/a/z.png
BuildShared == ExecBase \o << <<1054, 1073, 1097, 1080, 1077>>,
                              <<119, 46, 106, 112, 103>> >>              \* g/a/Общие/w.jpg

\* The images build_plan_live may find below g/a, in the order they are
\* added as MaxImages grows.
BuildPaths == <<ExecSX, ExecSTY, BuildZ>>

InitDistIdle ==
    /\ plan = [clusters |-> <<>>, plan |-> <<>>, unreadable |-> <<>>, no_faces |-> <<>>]
    /\ base_dir = <<>>
    /\ cluster_start = 0
    /\ moved = 0
    /\ copied = 0
    /\ moved_paths = {}
    /\ item_i = 0
    /\ ops = <<>>
    /\ ret = <<>>
    /\ runs = 0

\* g/a holds up to MaxImages images, a text file and an image below a
\* directory named with the marker.
InitBuild ==
    /\ top = "build"
    /\ pc = "build_call"
    /\ faults = 0
    /\ input_dir = ExecBase
    /\ \E n \in 0..(IF MaxImages < Len(BuildPaths) THEN MaxImages ELSE Len(BuildPaths)) :
         \E c \in [1..n -> BuildContents] :
           LET imgs == {BuildPaths[k] : k \in 1..n}
               all == imgs \cup {ExecNote, BuildShared}
           IN  /\ dirs = UNION {WithDirs(Parent(p), {}) : p \in all}
               /\ files = [p \in all |->
                             IF p \in imgs
                             THEN Image(p, c[IndexOf(BuildPaths, p)].readable,
                                        c[IndexOf(BuildPaths, p)].faces)
                             ELSE Image(p, TRUE, <<EdgeFace>>)]
    /\ all_images = <<>>
    /\ img_i = 0
    /\ owners = <<>>
    /\ img_face_count = <<>>
    /\ unreadable = <<>>
    /\ no_faces = <<>>
    /\ raw_labels = <<>>
    /\ oracle_log = <<>>
    /\ built = <<>>
    /\ InitGroupIdle
    /\ InitDistIdle

NextBuild == BuildEnter \/ BuildInit \/ BuildScan \/ BuildEmpty \/ BuildCluster \/ BuildPlan

SpecBuild == InitBuild /\ [][NextBuild]_vars

(* ------------------------------------------------------------------ *)
(* The program: process_group_folder(g)                                *)
(* ------------------------------------------------------------------ *)
GroupB == GroupDir \o << <<98>> >>                                        \* g/b
GroupBX == GroupB \o << <<120, 46, 106, 112, 103>> >>                    \* g/b/x.jpg
GroupC == GroupDir \o << <<99>> >>                                        \* g/c
GroupCX == GroupC \o << <<120, 46, 106, 112, 103>> >>                    \* g/c/x.jpg
GroupShared == GroupDir \o << <<1054, 1073, 1097, 1080, 1077>>,
                              <<120, 46, 106, 112, 103>> >>              \* g/Общие/x.jpg
GroupNote == GroupDir \o << <<114, 46, 116, 120, 116>> >>                \* g/r.txt
GroupAShared == ExecBase \o << <<1054, 1041, 1065, 1048, 1045>>,
                               <<119, 46, 106, 112, 103>> >>             \* g/a/ОБЩИЕ/w.jpg

\* The group: g/a with an image that an earlier run left in g/a/1, an image
\* two levels down and an image below a marker directory; g/b with one
\* image whose only detection is below min_score; g/c with one image; a
\* marker directory and a text file.
GroupFiles ==
    [p \in {Exec1X, ExecSTY, GroupAShared, GroupBX, GroupCX, GroupShared, GroupNote} |->
        IF p = ExecSTY THEN Image(p, TRUE, <<EdgeFace>>)
        ELSE IF p = GroupBX THEN Image(p, TRUE, <<LowFace>>)
        ELSE Image(p, TRUE, <<EdgeFace, EdgeFace>>)]

Init ==
    /\ top = "group"
    /\ pc = "group_call"
    /\ faults = 0
    /\ dirs = UNION {WithDirs(Parent(p), {}) : p \in DOMAIN GroupFiles}
    /\ files = GroupFiles
    /\ InitGroupIdle
    /\ InitBuildIdle
    /\ InitDistIdle

Next ==
    \/ GroupEnter \/ GroupNext \/ GroupDistribute \/ GroupAdopt
    \/ BuildEnter \/ BuildInit \/ BuildScan \/ BuildEmpty \/ BuildCluster \/ BuildPlan
    \/ DistEnter \/ DistItem \/ DistCleanup \/ DistReturn

Spec == Init /\ [][Next]_vars

(* ------------------------------------------------------------------ *)
(* Properties                                                          *)
(* ------------------------------------------------------------------ *)
\* The cluster ids the i-th distribute call of the coordinator was given.
CallRange(i) == calls[i].start .. (calls[i].next - 1)

\* C1: the cursor of process_group_folder starts at 1; each distribute call
\* is given the cursor the call before it returned; a call that has
\* returned advanced the cursor by the number of distinct clusters of its
\* plan; the id ranges of different subfolders are disjoint.
C1_CursorThreaded ==
    /\ \A i \in 1..Len(calls) :
          /\ calls[i].start = IF i = 1 THEN 1 ELSE calls[i - 1].next
          /\ i > 1 => calls[i - 1].returned
          /\ calls[i].returned =>
                calls[i].next = calls[i].start + Cardinality(calls[i].clusters)
    /\ \A i, j \in 1..Len(calls) :
          (i < j /\ calls[j].returned) => CallRange(i) \cap CallRange(j) = {}
    /\ (top = "group" /\ pc \in {"dist_call", "dist_item", "dist_cleanup", "dist_return",
                                 "dist_done"})
          => cluster_start = calls[Len(calls)].start

\* Three subfolders have been distributed: the first and the third with at
\* least one cluster, the second with none.
C1_Witness ==
    /\ Len(calls) = 3
    /\ calls[3].returned
    /\ calls[1].next > calls[1].start
    /\ calls[2].next = calls[2].start
    /\ calls[3].next > calls[3].start

\* C2: no failure of a filesystem operation on an item (mkdir, move, copy,
\* delete) makes distribute_to_folders leave by an exception.
C2_ItemFailureNeverAborts == top = "dist" => pc # "raised"

\* The k-th entry of subfolders is a directory the coordinator processes.
Included(k) ==
    subfolders[k] \in dirs /\ ~Contains(Lower(Name(subfolders[k])), Marker)

\* An oracle of build_plan_live has raised.
AnalysisFailed ==
    /\ Len(oracle_log) > 0
    /\ oracle_log[Len(oracle_log)] \in {"FaceAnalysis failed", "fit_predict failed"}

\* C3: when the analysis of a subfolder fails, process_group_folder gives up
\* that subfolder only: it does not end while a later subfolder that it
\* processes is still waiting.
C3_AnalysisFailureIsLocal ==
    (top = "group" /\ pc = "raised" /\ AnalysisFailed)
        => \A k \in (sub_i + 1)..Len(subfolders) : ~Included(k)

\* The item the loop of distribute_to_folders is at, its source and its
\* target paths.
CurItem == plan_items[item_i]
CurSrc == ParsePath(CurItem.path)
CurTargets == {Target(CurSrc, cluster_id_map[c]) : c \in Range(CurItem.cluster)}

\* A step that takes the loop past an item whose source exists, with no
\* operation failed by the environment.
CleanItemStep ==
    /\ pc = "dist_item"
    /\ item_i' = item_i + 1
    /\ faults' = faults
    /\ Exists(CurSrc, dirs, files)

\* The operations the step has added to ops.
NewOps == {ops'[k] : k \in (Len(ops) + 1)..Len(ops')}

\* What C4 says of a step over an item with several memberships.
CopiedToAll ==
    /\ copied' = copied + Len(CurItem.cluster)
    /\ moved' = moved
    /\ \A d \in CurTargets :
          /\ d \in DOMAIN files'
          /\ files'[d] = files[CurSrc]
          /\ Cardinality({o \in NewOps : o.op = "copy" /\ o.dst = d /\ o.ok}) = 1
    /\ CurSrc \notin DOMAIN files'

\* C4 as claimed: an item with two or more memberships whose source exists
\* is copied once into each target directory, copied grows by one per
\* target, and the original is deleted (the operations succeeding).
C4_Original ==
    [][(CleanItemStep /\ Len(CurItem.cluster) >= 2) => CopiedToAll]_vars

\* C4 amended: the same, for a source that does not lie in one of its own
\* target directories.
C4_CopiedToEveryTarget ==
    [][(CleanItemStep /\ Len(CurItem.cluster) >= 2 /\ CurSrc \notin CurTargets)
          => CopiedToAll]_vars

\* The operations of ops on item k.
OpsOf(k) == {o \in Range(ops) : o.item = k}

\* An item with several memberships has been copied to all its targets and
\* its original deleted.
C4_Witness ==
    \E k \in 1..Len(plan_items) :
        LET src == ParsePath(plan_items[k].path)
        IN  /\ Len(plan_items[k].cluster) >= 2
            /\ \A c \in Range(plan_items[k].cluster) :
                  /\ Target(src, cluster_id_map[c]) # src
                  /\ \E o \in OpsOf(k) :
                        o.op = "copy" /\ o.ok /\ o.dst = Target(src, cluster_id_map[c])
            /\ \E o \in OpsOf(k) : o.op = "unlink" /\ o.ok
            /\ src \notin DOMAIN files

\* What C5 says of a step over an item with one membership.
MovedToTarget ==
    /\ moved' = moved + 1
    /\ copied' = copied
    /\ \A d \in CurTargets :
          /\ Parent(d) \in dirs'
          /\ d \in DOMAIN files'
          /\ files'[d] = files[CurSrc]
    /\ CurSrc \notin DOMAIN files'

\* C5 as claimed: an item with one membership whose source exists is moved
\* to base_dir/<global id>/<name>, moved grows by one, copied stays, and
\* the file is gone from its source path (the operations succeeding).
C5_Original ==
    [][(CleanItemStep /\ Len(CurItem.cluster) = 1) => MovedToTarget]_vars

\* C5 amended: the same, for a source that is not already the target path.
C5_MovedToTarget ==
    [][(CleanItemStep /\ Len(CurItem.cluster) = 1 /\ CurSrc \notin CurTargets)
          => MovedToTarget]_vars

\* An item with one membership has been moved into a directory that the
\* call had to make.
C5_Witness ==
    \E k \in 1..Len(plan_items) :
        LET src == ParsePath(plan_items[k].path)
            dst == Target(src, cluster_id_map[plan_items[k].cluster[1]])
        IN  /\ Len(plan_items[k].cluster) = 1
            /\ dst # src
            /\ \E o \in OpsOf(k) : o.op = "move" /\ o.ok /\ o.dst = dst
            /\ Parent(dst) # Parent(Exec1X)
            /\ dst \in DOMAIN files
            /\ src \notin DOMAIN files

\* No source path of the plan exists.
Distributed ==
    \A k \in 1..Len(plan_items) : ~Exists(ParsePath(plan_items[k].path), dirs, files)

\* The second call has been entered on a distributed tree and has done
\* nothing so far.
SecondRunIdle ==
    runs = 2 /\ Distributed /\ moved = 0 /\ copied = 0 /\ ops = <<>>

\* C6: a second call with the same plan, entered when no source path of the
\* plan remains, performs no filesystem operation, changes no file or
\* directory, raises nothing and returns moved = 0 and copied = 0; and an
\* item whose source does not exist is passed over without any operation.
C6_Idempotent ==
    [][/\ (runs = 1 /\ pc = "dist_call" /\ Distributed)
             => (files' = files /\ dirs' = dirs /\ moved' = 0 /\ copied' = 0
                 /\ ops' = <<>> /\ pc' # "raised")
       /\ SecondRunIdle
             => /\ files' = files /\ dirs' = dirs /\ moved' = 0 /\ copied' = 0
                /\ ops' = <<>> /\ pc' # "raised"
                /\ pc' = "dist_done" => (ret'[1].moved = 0 /\ ret'[1].copied = 0)
       /\ (pc = "dist_item" /\ ~Exists(CurSrc, dirs, files))
             => /\ files' = files /\ dirs' = dirs /\ moved' = moved /\ copied' = copied
                /\ ops' = ops /\ moved_paths' = moved_paths /\ item_i' = item_i + 1
      ]_vars

\* The second call has returned on a tree the first call distributed.
C6_Witness ==
    /\ SecondRunIdle
    /\ pc = "dist_done"
    /\ ret[1].moved = 0
    /\ \E k \in 1..Len(plan_items) :
          LET src == ParsePath(plan_items[k].path)
              dst == Target(src, cluster_id_map[plan_items[k].cluster[1]])
          IN  dst \in DOMAIN files /\ files[dst].orig = src /\ dst # src

\* The distinct local cluster ids the items of the plan refer to.
Referenced == UNION {Range(plan_items[k].cluster) : k \in 1..Len(plan_items)}

\* C7: the cursor distribute_to_folders returns is cluster_start plus the
\* number of distinct cluster ids of the items of the plan, whatever was
\* skipped or failed; for a plan without clusters it is cluster_start.
C7_NextCursor ==
    ret # <<>> =>
        /\ ret[1].next = cluster_start + Cardinality(Referenced)
        /\ Referenced = {} => ret[1].next = cluster_start

\* A call in which an operation failed and an item was skipped has
\* returned, for a plan with fewer clusters than cluster ids listed.
C7_Witness ==
    /\ ret # <<>>
    /\ \E o \in Range(ops) : ~o.ok
    /\ \E k \in 1..Len(plan_items) : OpsOf(k) = {}
    /\ ret[1].next > cluster_start
    /\ Cardinality(Referenced) # Len(plan_items)

\* The non-noise labels of raw_labels, and the position of a label among
\* them.
Kept == Range(raw_labels) \ {Noise}
Rank(label) == Cardinality({m \in Kept : m <= label})

\* C8: the distinct non-noise raw labels are mapped onto exactly 1..K, a
\* smaller label to a smaller id, noise to no id; the plan has the clusters
\* 1..K and each embedding's image is in the cluster of its label's rank.
C8_DenseOrderedIds ==
    (pc \in {"build_labelled", "build_done"} /\ Len(raw_labels) > 0) =>
        LET lm == label_map(raw_labels)
        IN  /\ DOMAIN lm = Kept
            /\ {lm[l] : l \in Kept} = 1..Cardinality(Kept)
            /\ \A a, b \in Kept : a < b => lm[a] < lm[b]
            /\ pc = "build_done" =>
                  /\ DOMAIN built[1].clusters = 1..Cardinality(Kept)
                  /\ \A e \in 1..Len(raw_labels) :
                        raw_labels[e] # Noise =>
                            PathStr(owners[e]) \in Range(built[1].clusters[Rank(raw_labels[e])])
                  /\ \A k \in 1..Len(built[1].plan) :
                        Range(built[1].plan[k].cluster) \subseteq 1..Cardinality(Kept)

\* A plan was built from labels that arrive in descending order with noise
\* between them.
C8_Witness ==
    /\ pc = "build_done"
    /\ Len(raw_labels) >= 3
    /\ raw_labels[1] = 2
    /\ raw_labels[2] = Noise
    /\ raw_labels[3] = 0

\* The image p owns no embedding with a non-noise label.
Unclustered(p) ==
    \A e \in 1..Len(owners) : owners[e] = p => (e <= Len(raw_labels) /\ raw_labels[e] = Noise)

\* The paths of the items of the built plan.
ItemPaths == {built[1].plan[k].path : k \in 1..Len(built[1].plan)}

\* C9: no item of a built plan has an empty cluster list; an image whose
\* faces are all noise, or that has no embedding, has no item.
C9_NoEmptyItem ==
    built # <<>> =>
        /\ \A k \in 1..Len(built[1].plan) : Len(built[1].plan[k].cluster) >= 1
        /\ \A p \in Range(all_images) : Unclustered(p) => PathStr(p) \notin ItemPaths

\* A plan with an item was built while another image had only noise faces.
C9_Witness ==
    /\ built # <<>>
    /\ Len(built[1].plan) >= 1
    /\ \E p \in Range(all_images) : Unclustered(p) /\ p \in Range(owners)

\* The image p decodes and has detections, all of them below min_score.
AllBelow(p) ==
    /\ Readable(p)
    /\ Len(files[p].faces) > 0
    /\ \A k \in 1..Len(files[p].faces) : files[p].faces[k].det_score < min_score

\* C10: an image all of whose detections are below min_score is in none of
\* items, no_faces and unreadable; no_faces holds exactly the readable
\* images without any detection.
C10_BelowThresholdNowhere ==
    built # <<>> =>
        /\ \A p \in Range(all_images) :
              AllBelow(p) =>
                  /\ PathStr(p) \notin ItemPaths
                  /\ PathStr(p) \notin Range(built[1].no_faces)
                  /\ PathStr(p) \notin Range(built[1].unreadable)
        /\ Range(built[1].no_faces) =
              {PathStr(p) : p \in {q \in Range(all_images) :
                                      Readable(q) /\ Len(files[q].faces) = 0}}

\* A plan was built for a directory with an image below the threshold and
\* an image without detections.
C10_Witness ==
    /\ built # <<>>
    /\ \E p \in Range(all_images) : AllBelow(p)
    /\ \E q \in Range(all_images) : Readable(q) /\ Len(files[q].faces) = 0

\* The parents of the sources that the moves of this call moved.
MovedParents == {Parent(o.src) : o \in {x \in Range(ops) : x.op = "move" /\ x.ok}}

\* The directory p is a parent of a singly-moved source that exists and is
\* empty when the cleanup pass reaches it: it holds no file, and each
\* directory in it is such a parent too (and so was removed before it).
RECURSIVE EmptyWhenReached(_)
EmptyWhenReached(p) ==
    /\ p \in MovedParents
    /\ p \in dirs
    /\ \A f \in DOMAIN files : Parent(f) # p
    /\ \A c \in dirs : (Len(c) = Len(p) + 1 /\ Parent(c) = p) => EmptyWhenReached(c)

\* C11: distribute_to_folders removes directories in its cleanup pass only;
\* the pass removes no directory but a parent of a singly-moved source that
\* is empty when reached, and (no rmdir failing) removes each of these; it
\* touches no file.
C11_CleanupExact ==
    [][/\ pc # "dist_cleanup" => dirs \subseteq dirs'
       /\ pc = "dist_cleanup" =>
             /\ moved_paths = MovedParents
             /\ files' = files
             /\ dirs' \subseteq dirs
             /\ \A p \in dirs \ dirs' : EmptyWhenReached(p)
             /\ faults' = faults => dirs \ dirs' = {p \in dirs : EmptyWhenReached(p)}
      ]_vars

\* The cleanup pass has removed the parent of a moved source and has left
\* the directory above it, which is empty now and the parent of no moved
\* source.
C11_Witness ==
    /\ pc = "dist_return"
    /\ runs = 1
    /\ \E o \in Range(ops) :
          /\ o.op = "rmdir" /\ o.ok /\ o.src \notin dirs
          /\ Parent(o.src) \in dirs
          /\ Parent(o.src) \notin moved_paths
          /\ ~HasEntries(Parent(o.src), dirs, files)

\* The scan is over and no image of all_images has yielded an embedding.
NoEmbedding ==
    /\ pc \in {"build_scanned", "build_labelled", "build_done", "raised"}
    /\ img_i > Len(all_images)
    /\ \A p \in Range(all_images) : ~Readable(p) \/ Accepted(files[p].faces) = {}

\* The entries of oracle_log that are calls of the cluster oracle.
ClusterCalls ==
    {k \in 1..Len(oracle_log) : oracle_log[k] \in {"fit_predict", "fit_predict failed"}}

\* C12: when the analysis yields no embedding, the cluster oracle is never
\* called, build_plan_live does not raise after the scan, and the plan it
\* returns has no cluster and no item and carries the unreadable and the
\* no_faces lists of the scan, in their order.
C12_EmptyPlanWithoutOracle ==
    (top = "build" /\ NoEmbedding) =>
        /\ ClusterCalls = {}
        /\ pc \in {"build_scanned", "build_done"}
        /\ pc = "build_done" =>
              /\ DOMAIN built[1].clusters = {}
              /\ built[1].plan = <<>>
              /\ built[1].unreadable = [k \in 1..Len(unreadable) |-> PathStr(unreadable[k])]
              /\ built[1].no_faces = [k \in 1..Len(no_faces) |-> PathStr(no_faces[k])]
              /\ Range(unreadable) = {p \in Range(all_images) : ~Readable(p)}
              /\ Range(no_faces) =
                    {p \in Range(all_images) : Readable(p) /\ Len(files[p].faces) = 0}

\* The empty plan was returned for a directory with an unreadable image
\* and an image without detections.
C12_Witness ==
    /\ top = "build"
    /\ NoEmbedding
    /\ pc = "build_done"
    /\ Len(built[1].unreadable) = 1
    /\ Len(built[1].no_faces) = 1

\* The name of the directory d contains the marker, in any case.
MarkerNamed(d) == \E i \in 0..(Len(Name(d)) - Len(Marker)) :
                      \A j \in 1..Len(Marker) : LowerChar(Name(d)[i + j]) = Marker[j]

\* The path p lies below a directory whose name contains the marker.
UnderMarker(p) == \E k \in 1..(Len(p) - 1) : MarkerNamed(SubSeq(p, 1, k))

\* No marker directory is being analysed or distributed, and no image below
\* a marker directory is in all_images, in a plan or in an operation.
MarkerKeptOut ==
    /\ input_dir # <<>> => ~MarkerNamed(input_dir)
    /\ base_dir # <<>> => ~MarkerNamed(base_dir)
    /\ \A k \in 1..Len(calls) : ~MarkerNamed(calls[k].base_dir)
    /\ \A k \in 1..Len(all_images) : ~UnderMarker(all_images[k])
    /\ \A k \in 1..Len(plan_items) : ~UnderMarker(ParsePath(plan_items[k].path))
    /\ built # <<>> =>
          \A k \in 1..Len(built[1].plan) : ~UnderMarker(ParsePath(built[1].plan[k].path))
    /\ \A o \in Range(ops) :
          ~UnderMarker(o.src) /\ ~UnderMarker(o.dst) /\ ~MarkerNamed(o.src)
              /\ ~MarkerNamed(o.dst)

\* C13: process_group_folder never analyses or distributes an immediate
\* subdirectory named with the marker, no image below a marker directory
\* enters all_images or a plan, and no step changes a file below a marker
\* directory or removes a marker directory.
C13_MarkerUntouched ==
    /\ []MarkerKeptOut
    /\ [][/\ \A f \in DOMAIN files :
                UnderMarker(f) => (f \in DOMAIN files' /\ files'[f] = files[f])
          /\ \A f \in DOMAIN files' : UnderMarker(f) => f \in DOMAIN files
          /\ \A d \in dirs : (MarkerNamed(d) \/ UnderMarker(d)) => d \in dirs'
         ]_vars

\* process_group_folder has returned after distributing files of g/a and of
\* g/c, and the images below g/Общие and g/a/ОБЩИЕ are where they were.
C13_Witness ==
    /\ pc = "group_done"
    /\ \E f \in DOMAIN files : files[f].orig # f /\ IsPrefix(ExecBase, f)
    /\ \E f \in DOMAIN files : files[f].orig # f /\ IsPrefix(GroupC, f)
    /\ GroupShared \in DOMAIN files /\ files[GroupShared].orig = GroupShared
    /\ GroupAShared \in DOMAIN files /\ files[GroupAShared].orig = GroupAShared

\* The first call has returned, no item was skipped and no operation failed.
RanClean ==
    /\ top = "dist"
    /\ runs = 1
    /\ pc = "dist_done"
    /\ \A k \in 1..Len(plan_items) : OpsOf(k) # {}
    /\ \A o \in Range(ops) : o.ok

\* The target paths of the plan: one for each item and membership.
PlannedTargets ==
    UNION { {Target(ParsePath(plan_items[k].path), cluster_id_map[c]) :
                c \in Range(plan_items[k].cluster)} : k \in 1..Len(plan_items) }

\* C14: after a call in which every source existed and no operation failed,
\* the files at the planned target paths are as many as moved + copied,
\* that is one for each item and membership.
C14_ExactlyPlannedFiles ==
    RanClean =>
        Cardinality({f \in PlannedTargets : f \in DOMAIN files})
            = ret[1].moved + ret[1].copied

\* The global ids of the call, and the directories named by them.
GlobalIds == cluster_start .. (cluster_start + Cardinality(Referenced) - 1)
GlobalDirs == {base_dir \o <<Decimal(g)>> : g \in GlobalIds}

\* cluster_id_map is the order-preserving bijection from the referenced
\* local ids onto GlobalIds.
OrderedBijection ==
    /\ DOMAIN cluster_id_map = Referenced
    /\ {cluster_id_map[c] : c \in Referenced} = GlobalIds
    /\ \A a, b \in Referenced : a < b => cluster_id_map[a] < cluster_id_map[b]
    /\ \A c \in Referenced :
          cluster_id_map[c] = cluster_start + Cardinality({d \in Referenced : d < c})

\* Every mkdir, move and copy of the call went to a directory of GlobalDirs.
OpsInGlobalDirs ==
    \A o \in Range(ops) : o.op \in {"mkdir", "move", "copy"} =>
        (IF o.op = "mkdir" THEN o.dst ELSE Parent(o.dst)) \in GlobalDirs

\* A step of the call makes no directory below base_dir and writes no file
\* but in a directory of GlobalDirs.
WritesInGlobalDirs ==
    /\ \A d \in dirs' \ dirs : (IsPrefix(base_dir, d) /\ d # base_dir) => d \in GlobalDirs
    /\ \A f \in DOMAIN files' :
          (f \notin DOMAIN files \/ files'[f] # files[f]) => Parent(f) \in GlobalDirs

\* Local id 1 is given cluster_start and local id 2 is given
\* cluster_start + 1.
OneAndTwo ==
    /\ 1 \in Referenced => cluster_id_map[1] = cluster_start
    /\ 2 \in Referenced => cluster_id_map[2] = cluster_start + 1

\* C15 as claimed: the global ids are given by the order-preserving
\* bijection from the sorted referenced local ids onto
\* cluster_start .. cluster_start + n - 1, so that local id 1 gets
\* cluster_start and local id 2 gets cluster_start + 1, and every directory
\* made or written below base_dir is named by an id of that range.
C15_Original ==
    /\ [](top = "dist" => (OrderedBijection /\ OneAndTwo /\ OpsInGlobalDirs))
    /\ [][top = "dist" => WritesInGlobalDirs]_vars

\* C15 amended: the same without the places of local ids 1 and 2, which
\* are cluster_start and cluster_start + 1 only when the plan refers to
\* local id 1 (and to both, for local id 2).
C15_GlobalIds ==
    /\ [](top = "dist" => (/\ OrderedBijection
                           /\ OpsInGlobalDirs
                           /\ 1 \in Referenced => cluster_id_map[1] = cluster_start
                           /\ {1, 2} \subseteq Referenced
                                 => cluster_id_map[2] = cluster_start + 1))
    /\ [][top = "dist" => WritesInGlobalDirs]_vars

\* A call from cursor 2 whose plan refers to the local ids 1 and 3 only has
\* copied a file into the directories 2 and 3.
C15_Witness ==
    /\ top = "dist"
    /\ pc = "dist_done"
    /\ cluster_start = 2
    /\ Referenced = {1, 3}
    /\ \A g \in {2, 3} :
          \E o \in Range(ops) :
              o.op = "copy" /\ o.ok /\ Parent(o.dst) = base_dir \o <<Decimal(g)>>

\* The number of operations of the given kind in ops that succeeded.
Succeeded(kind) ==
    Cardinality({k \in 1..Len(ops) : ops[k].op = kind /\ ops[k].ok})

\* C16: at every point of a call, moved is the number of moves that have
\* succeeded and copied the number of copies that have succeeded, and these
\* are the counts the call returns; a failed move or copy and a skipped
\* item add nothing.
C16_CountsAreCompleted ==
    (top = "dist" /\ pc # "dist_call") =>
        /\ moved = Succeeded("move")
        /\ copied = Succeeded("copy")
        /\ ret # <<>> =>
              (ret[1].moved = Succeeded("move") /\ ret[1].copied = Succeeded("copy"))

\* A call has returned after a move or copy that failed, one that succeeded
\* and an item that was skipped.
C16_Witness ==
    /\ top = "dist"
    /\ pc = "dist_done"
    /\ \E o \in Range(ops) : o.op \in {"move", "copy"} /\ ~o.ok
    /\ \E o \in Range(ops) : o.op \in {"move", "copy"} /\ o.ok
    /\ \E k \in 1..Len(plan_items) : OpsOf(k) = {}
    /\ ret[1].moved + ret[1].copied >= 1

\* The step has tried to delete the original of the item and failed.
DeleteFailed ==
    /\ pc = "dist_item"
    /\ Len(CurItem.cluster) >= 2
    /\ \E o \in NewOps : o.op = "unlink" /\ ~o.ok

\* C17: when the deletion of the original of an item with several
\* memberships fails, the original is still at its source path, every copy
\* made is in its target directory and counted in copied, no other file or
\* directory is taken away, and the loop goes on to the next item.
C17_DeleteFailureTolerated ==
    [][DeleteFailed =>
          /\ CurSrc \in DOMAIN files' /\ files'[CurSrc] = files[CurSrc]
          /\ \A o \in NewOps :
                (o.op = "copy" /\ o.ok) => (o.dst \in DOMAIN files' /\ files'[o.dst] = files[CurSrc])
          /\ copied' = copied + Cardinality({o \in NewOps : o.op = "copy" /\ o.ok})
          /\ moved' = moved
          /\ DOMAIN files \subseteq DOMAIN files'
          /\ dirs \subseteq dirs'
          /\ item_i' = item_i + 1
          /\ pc' = IF item_i = Len(plan_items) THEN "dist_cleanup" ELSE "dist_item"
      ]_vars

\* The deletion of an original failed after its copies were made, and the
\* call went on to move the next item and returned.
C17_Witness ==
    /\ top = "dist"
    /\ pc = "dist_done"
    /\ runs = 1
    /\ \E o \in Range(ops) :
          /\ o.op = "unlink" /\ ~o.ok
          /\ o.src \in DOMAIN files
          /\ Cardinality({c \in OpsOf(o.item) : c.op = "copy" /\ c.ok}) = 2
          /\ \E n \in OpsOf(o.item + 1) : n.op = "move" /\ n.ok
    /\ ret[1].copied = 2

\* The embeddings of the image p that the cluster oracle did not label as
\* noise, and the local cluster ids they fall into.
Memberships(p) ==
    {e \in 1..Len(raw_labels) : owners[e] = p /\ raw_labels[e] # Noise}
LocalIds(p) == {Rank(raw_labels[e]) : e \in Memberships(p)}

\* The image p has at least one non-noise membership.
Clustered(p) == Memberships(p) # {}

\* C18: the items of a built plan are the images of all_images that have a
\* non-noise membership, one item each, in the order of all_images; the
\* cluster list of an item is the set of local ids of its image, strictly
\* ascending.
C18_ItemsInScanOrder ==
    (top = "build" /\ built # <<>>) =>
        LET items == built[1].plan
            kept == SelectSeq(all_images, Clustered)
        IN  /\ Len(items) = Len(kept)
            /\ \A k \in 1..Len(items) :
                  /\ items[k].path = PathStr(kept[k])
                  /\ Range(items[k].cluster) = LocalIds(kept[k])
                  /\ \A a, b \in 1..Len(items[k].cluster) :
                        a < b => items[k].cluster[a] < items[k].cluster[b]

\* A plan of two items was built whose paths are not in sorted order, one
\* of them for an image with two faces in the same cluster.
C18_Witness ==
    /\ top = "build"
    /\ built # <<>>
    /\ Len(built[1].plan) = 2
    /\ StrLess(built[1].plan[2].path, built[1].plan[1].path)
    /\ \E k \in 1..2 :
          /\ Len(built[1].plan[k].cluster) = 1
          /\ Cardinality(Memberships(ParsePath(built[1].plan[k].path))) = 2

\* The file names of the items of the plan are pairwise distinct.
NamesDistinct ==
    \A a, b \in 1..Len(plan_items) :
        a # b => Name(ParsePath(plan_items[a].path)) # Name(ParsePath(plan_items[b].path))

\* The loop of this call has worked on item k, whose source existed, and
\* has gone past it.
Processed(k) ==
    /\ OpsOf(k) # {}
    /\ item_i > k \/ pc \in {"dist_cleanup", "dist_return", "dist_done"}

\* The image of item k is at its source path or at one of its target paths.
Survives(k) ==
    LET src == ParsePath(plan_items[k].path)
        at == {src} \cup {Target(src, cluster_id_map[c]) : c \in Range(plan_items[k].cluster)}
    IN  \E f \in at : f \in DOMAIN files /\ files[f].orig = src

\* C19: with pairwise distinct file names, the image of every item that the
\* call has worked on is still at its source path or in one of its target
\* directories, whatever operations failed.
C19_LastInstanceKept ==
    (top = "dist" /\ NamesDistinct) =>
        \A k \in 1..Len(plan_items) : Processed(k) => Survives(k)

\* The number of clusters of a plan.
K(b) == Cardinality(DOMAIN b.clusters)

\* In the plan b the clusters map and the items say the same: a path is in
\* clusters[k] exactly if its item lists k; the ids the items refer to are
\* the keys of clusters, which are 1..K; no item has fewer faces than
\* clusters.
Agrees(b) ==
    /\ DOMAIN b.clusters = 1..K(b)
    /\ \A k \in DOMAIN b.clusters :
          Range(b.clusters[k]) =
              {b.plan[i].path : i \in {j \in 1..Len(b.plan) : k \in Range(b.plan[j].cluster)}}
    /\ UNION {Range(b.plan[i].cluster) : i \in 1..Len(b.plan)} = DOMAIN b.clusters
    /\ \A i \in 1..Len(b.plan) : b.plan[i].faces >= Len(b.plan[i].cluster)

\* C20: every plan build_plan_live returns agrees with itself in this
\* sense, and the call of distribute_to_folders on it returns the cursor
\* cluster_start + K.
C20_PlanAgrees ==
    /\ built # <<>> => Agrees(built[1])
    /\ (top = "group" /\ pc \in {"dist_call", "dist_item", "dist_cleanup", "dist_return",
                                  "dist_done"}) => plan = built[1]
    /\ (top = "group" /\ pc = "dist_done") => ret[1].next = cluster_start + K(plan)

\* The third subfolder was distributed from a cursor above 1 with a plan of
\* two clusters, one image being in both.
C20_Witness ==
    /\ top = "group"
    /\ pc = "dist_done"
    /\ Len(calls) = 3
    /\ cluster_start > 1
    /\ K(plan) = 2
    /\ \E i \in 1..Len(plan.plan) : plan.plan[i].cluster = <<1, 2>>
    /\ ret[1].next = cluster_start + 2

====
